---- MODULE Spec2Model ----
(***************************************************************************)
(* Authentication core of the StreamView backend: register, login,         *)
(* refresh (rotation) and logout over the users / refresh_tokens tables,   *)
(* and the bearer-token dependencies get_current_user and require_roles.   *)
(*                                                                         *)
(* Every request runs in its own SQLAlchemy session (db/session.py:36,     *)
(* autocommit=False, autoflush=False) against PostgreSQL at its default    *)
(* READ COMMITTED isolation.  A handler is cut into steps at its database  *)
(* writes: the SELECTs that open it read the committed store; the UPDATE   *)
(* of a flush takes its row lock and an INSERT INTO users its unique-index *)
(* entry, both held to the end of the transaction; the INSERT INTO         *)
(* refresh_tokens, the COMMIT that publishes the whole transaction at once *)
(* and the response that follows it make the last step (what another       *)
(* session can see or wait for does not change between them).  The clock   *)
(* counts days.                                                            *)
(***************************************************************************)
EXTENDS Integers, Sequences, FiniteSets, TLC

\* Bounds of the model.
MaxUsers == 1
MaxTokens == 3
MaxTime == 1
\* Configured settings (REFRESH_TOKEN_EXPIRE_DAYS, ACCESS_TOKEN_EXPIRE_MINUTES
\* taken as whole days), chosen small.
RefreshTTL == 1
AccessTTL == 1

Workers == {1, 2}
TokenNames == <<"t1", "t2", "t3", "t4">>
TokenStrings == {TokenNames[i] : i \in DOMAIN TokenNames}
LocalParts == {"a", "A", "b"}
DomainParts == {"x", "X"}
Emails == {<<l, "@", d>> : l \in LocalParts, d \in DomainParts}
Passwords == {"p1", "p2"}
Roles == {"user", "admin"}
\* JWT_SECRET and a key that is not it.
jwt_secret == "secret"
Keys == {jwt_secret, "other"}

VARIABLES
    users,        \* committed rows of table users: id -> row
    tokens,       \* committed rows of table refresh_tokens: id -> row
    nextUserId,   \* users.id sequence
    nextTokenId,  \* refresh_tokens.id sequence
    now,          \* wall clock (_utcnow)
    pc,           \* per request worker: position in its handler
    op,           \* per worker: the route being served
    arg,          \* per worker: the refresh_token of the payload ("" when it has none)
    rt,           \* per worker: the RefreshToken object loaded by the handler
    usr,          \* per worker: the User object held by the handler
    tx,           \* per worker: the session's pending (unflushed / uncommitted) writes
    resp,         \* per worker: the HTTP response
    cause,        \* history: what the handler's first lookup found
    rotations,    \* history: committed rotations, [old |-> presented, new |-> issued]
    auth          \* the Authorization header and the allowed roles of a guarded request

vars == <<users, tokens, nextUserId, nextTokenId, now, pc, op, arg, rt, usr, tx,
          resp, cause, rotations, auth>>


-----------------------------------------------------------------------------
\* Values

NoneToken == [id |-> 0, token |-> "", user_id |-> 0, expires_at |-> 0, revoked |-> FALSE]
NoneUser == [id |-> 0, email |-> <<>>, password_hash |-> <<>>, role |-> "", is_active |-> FALSE]
NoTx == [upd |-> {}, users |-> <<>>, toks |-> <<>>]
NoJWT == [sub |-> <<>>, typ |-> "", role |-> "", iat |-> 0, exp |-> 0]
NoPublic == [id |-> 0, email |-> <<>>, role |-> ""]
NoResp == [status |-> 0, detail |-> "", access_token |-> NoJWT, refresh_token |-> "",
           user |-> NoPublic]

Range(f) == {f[i] : i \in DOMAIN f}

\* str.lower() on the characters of the model's alphabet.
LowerChar(c) ==
    CASE c = "A" -> "a"
      [] c = "B" -> "b"
      [] c = "X" -> "x"
      [] OTHER -> c

Lower(s) == [i \in DOMAIN s |-> LowerChar(s[i])]

AtPos(s) == CHOOSE i \in DOMAIN s : s[i] = "@"

\* pydantic EmailStr: the validated value keeps the local part as typed and
\* lower-cases the domain.
EmailStr(s) == [i \in DOMAIN s |-> IF i > AtPos(s) THEN LowerChar(s[i]) ELSE s[i]]

\* bcrypt, seen as a one-way tag on the password.
hash_password(password) == <<"bcrypt", password>>

verify_password(password, password_hash) ==
    IF password = "" \/ password_hash = <<>>
    THEN FALSE
    ELSE password_hash = <<"bcrypt", password>>

Digits == <<"0", "1", "2", "3", "4", "5", "6", "7", "8", "9">>

\* str(user.id)
RECURSIVE str(_)
str(n) == IF n < 10 THEN <<Digits[n + 1]>> ELSE str(n \div 10) \o <<Digits[(n % 10) + 1]>>

\* Variant: the extra claims are left out of the payload.
CreateAccessTokenNoClaims(subject, role, t) ==
    [sub |-> subject, typ |-> "access", role |-> "", iat |-> t, exp |-> t + AccessTTL]

create_access_token(subject, role, t) ==
    [sub |-> subject, typ |-> "access", role |-> role, iat |-> t, exp |-> t + AccessTTL]

_to_user_public(user) == [id |-> user.id, email |-> user.email, role |-> user.role]

\* Variant: the access token is made out to the email.
TokenResponseForEmail(status, user, refresh_token, t) ==
    [status |-> status, detail |-> "",
     access_token |-> create_access_token(user.email, user.role, t),
     refresh_token |-> refresh_token,
     user |-> _to_user_public(user)]

_token_response(status, user, refresh_token, t) ==
    [status |-> status, detail |-> "",
     access_token |-> create_access_token(str(user.id), user.role, t),
     refresh_token |-> refresh_token,
     user |-> _to_user_public(user)]

HTTPException(status, detail) == [NoResp EXCEPT !.status = status, !.detail = detail]

\* An exception no handler catches (IntegrityError out of flush()).
ServerError == HTTPException(500, "Internal Server Error")

-----------------------------------------------------------------------------
\* Queries on the committed store (READ COMMITTED: a SELECT sees what is committed)

scalar_one_or_none(rows, none) == IF rows = {} THEN none ELSE CHOOSE r \in rows : TRUE

\* select(RefreshToken).where(RefreshToken.token == s) on the rows toks
TokenRow(toks, s) == scalar_one_or_none({r \in Range(toks) : r.token = s}, NoneToken)

SelectToken(s) == TokenRow(tokens, s)

_get_user_by_email(email) ==
    scalar_one_or_none({u \in Range(users) : u.email = email}, NoneUser)

GetUser(id) == IF id \in DOMAIN users THEN users[id] ELSE NoneUser

-----------------------------------------------------------------------------
\* The handlers' local computations

\* Variant: the token is built before the user has an id.
IssueForNobody(user, t) ==
    [id |-> 0, token |-> "", user_id |-> 0, expires_at |-> t + RefreshTTL,
     revoked |-> FALSE]

\* Variant: the lifetime is not added.
IssueWithoutLifetime(user, t) ==
    [id |-> 0, token |-> "", user_id |-> user.id, expires_at |-> t, revoked |-> FALSE]

\* The string drawn at line 52 is first observed by the INSERT, so the draw is
\* made there (Commit); until then the object carries "".
_issue_refresh_token(user, t) ==
    [id |-> 0, token |-> "", user_id |-> user.id, expires_at |-> t + RefreshTTL,
     revoked |-> FALSE]

\* Variant: the flag is never set.
RevokeForgotten(r) == r

_revoke_refresh_token(r) == [r EXCEPT !.revoked = TRUE]

\* Variant: the revoked flag is not checked.
RefreshRejectNoRevoked(r, t) ==
    IF r.id = 0 THEN "Invalid refresh token"
    ELSE IF r.expires_at <= t THEN "Refresh token expired"
    ELSE ""

\* Variant: a token is still taken at the instant it expires.
RefreshRejectLate(r, t) ==
    IF r.id = 0 THEN "Invalid refresh token"
    ELSE IF r.revoked THEN "Refresh token revoked"
    ELSE IF r.expires_at < t THEN "Refresh token expired"
    ELSE ""

\* Variant: the expiry is not checked.
RefreshRejectNoExpiry(r, t) ==
    IF r.id = 0 THEN "Invalid refresh token"
    ELSE IF r.revoked THEN "Refresh token revoked"
    ELSE ""

\* refresh, lines 175-182: the detail of the first check that fails, "" when none does.
RefreshReject(r, t) ==
    IF r.id = 0 THEN "Invalid refresh token"
    ELSE IF r.revoked THEN "Refresh token revoked"
    ELSE IF r.expires_at <= t THEN "Refresh token expired"
    ELSE ""

\* Variant: the test of is_active is inverted.
UserUsableInverted(u) == u.id # 0 /\ ~u.is_active

\* Variant: the active flag is not looked at.
UserUsableInactive(u) == u.id # 0

\* refresh, line 185 (and login, line 147)
UserUsable(u) == u.id # 0 /\ u.is_active

\* Variant: the test of the flag is inverted.
LogoutRevokesInverted(r) == r.id # 0 /\ r.revoked

\* logout, line 211
LogoutRevokes(r) == r.id # 0 /\ ~r.revoked

\* Variant: an unknown token is reported as an error.
LogoutResponseNotFound(r) ==
    IF r.id = 0 THEN HTTPException(404, "Refresh token not found")
    ELSE HTTPException(200, "Logged out")

\* logout, line 215
LogoutResponse(r) == HTTPException(200, "Logged out")

\* What the first lookup of a handler found (history only).
RefreshCause(r, t) ==
    IF r.id = 0 THEN "notfound"
    ELSE IF r.revoked THEN "revoked"
    ELSE IF r.expires_at <= t THEN "expired"
    ELSE "valid"

-----------------------------------------------------------------------------
\* Bearer authentication (api/deps/auth.py, security/jwt.py)

\* jwt.encode(payload, key): a token is its claims and the key that signed them.
\* A claim that is absent is "".
jwt_encode(payload, key) == [key |-> key, claims |-> payload]

\* No Authorization header (or an empty one).
NoCredentials == jwt_encode(NoJWT, "")

NoAuth == [bearer |-> NoCredentials, allowed |-> {}]

\* int(sub): the strings that parse, and their values.
Numeric == {str(n) : n \in 0..(MaxUsers + 1)}

int(sub) == CHOOSE n \in 0..(MaxUsers + 1) : str(n) = sub

\* Variant: a token is still good at the instant of its exp.
DecodeTokenLate(token, t) ==
    IF token.key # jwt_secret THEN [ok |-> FALSE, claims |-> NoJWT]
    ELSE IF token.claims.exp < t THEN [ok |-> FALSE, claims |-> NoJWT]
    ELSE [ok |-> TRUE, claims |-> token.claims]

\* jwt.decode(token, jwt_secret): signature, then exp against the clock.
decode_token(token, t) ==
    IF token.key # jwt_secret THEN [ok |-> FALSE, claims |-> NoJWT]
    ELSE IF token.claims.exp <= t THEN [ok |-> FALSE, claims |-> NoJWT]
    ELSE [ok |-> TRUE, claims |-> token.claims]

_unauthorized(detail) == HTTPException(401, detail)

_forbidden == HTTPException(403, "Not enough permissions")

\* The dependency returns the user: seen from outside, the request goes on (200).
Resolved(user) == [NoResp EXCEPT !.status = 200, !.user = _to_user_public(user)]

\* Variant: the user must still hold a refresh token that is not revoked.
CurrentUserWithSession(credentials, t) ==
    IF credentials = NoCredentials THEN _unauthorized("Not authenticated")
    ELSE LET d == decode_token(credentials, t)
         IN IF ~d.ok THEN _unauthorized("Invalid or expired token")
            ELSE IF d.claims.typ # "access" THEN _unauthorized("Invalid token type")
            ELSE IF d.claims.sub = <<>> THEN _unauthorized("Invalid token payload")
            ELSE IF d.claims.sub \notin Numeric THEN _unauthorized("Invalid token subject")
            ELSE LET user == GetUser(int(d.claims.sub))
                 IN IF ~UserUsable(user) THEN _unauthorized("User not found or inactive")
                    ELSE IF ~\E r \in Range(tokens) : r.user_id = user.id /\ ~r.revoked
                         THEN _unauthorized("Invalid or expired token")
                    ELSE Resolved(user)

\* Variant: the typ claim is not looked at.
CurrentUserAnyTyp(credentials, t) ==
    IF credentials = NoCredentials THEN _unauthorized("Not authenticated")
    ELSE LET d == decode_token(credentials, t)
         IN IF ~d.ok THEN _unauthorized("Invalid or expired token")
            ELSE IF d.claims.sub = <<>> THEN _unauthorized("Invalid token payload")
            ELSE IF d.claims.sub \notin Numeric THEN _unauthorized("Invalid token subject")
            ELSE LET user == GetUser(int(d.claims.sub))
                 IN IF ~UserUsable(user) THEN _unauthorized("User not found or inactive")
                    ELSE Resolved(user)

get_current_user(credentials, t) ==
    IF credentials = NoCredentials THEN _unauthorized("Not authenticated")
    ELSE LET d == decode_token(credentials, t)
         IN IF ~d.ok THEN _unauthorized("Invalid or expired token")
            ELSE IF d.claims.typ # "access" THEN _unauthorized("Invalid token type")
            ELSE IF d.claims.sub = <<>> THEN _unauthorized("Invalid token payload")
            ELSE IF d.claims.sub \notin Numeric THEN _unauthorized("Invalid token subject")
            ELSE LET user == GetUser(int(d.claims.sub))
                 IN IF ~UserUsable(user) THEN _unauthorized("User not found or inactive")
                    ELSE Resolved(user)

\* Variant: a role outside the set is answered as a failed authentication.
RequireRolesUnauthorized(allowed_roles, credentials, t) ==
    LET r == get_current_user(credentials, t)
    IN IF r.status # 200 THEN r
       ELSE IF allowed_roles = {} THEN r
       ELSE IF r.user.role \notin allowed_roles THEN _unauthorized("Not enough permissions")
       ELSE r

require_roles(allowed_roles, credentials, t) ==
    LET r == get_current_user(credentials, t)
    IN IF r.status # 200 THEN r
       ELSE IF allowed_roles = {} THEN r
       ELSE IF r.user.role \notin allowed_roles THEN _forbidden
       ELSE r

-----------------------------------------------------------------------------
\* Transactions

\* Variant: the INSERT is committed and the UPDATE is lost.
CommitTokensInsertOnly(toks, t) ==
    IF t.toks = <<>> THEN toks ELSE toks @@ (t.toks[1].id :> t.toks[1])

\* Variant: revoking one token revokes every token of its user.
CommitTokensAllOfUser(toks, t) ==
    LET updated == [i \in DOMAIN toks |->
                      IF \E o \in t.upd : o.user_id = toks[i].user_id
                      THEN [toks[i] EXCEPT !.revoked = TRUE]
                      ELSE toks[i]]
    IN IF t.toks = <<>> THEN updated ELSE updated @@ (t.toks[1].id :> t.toks[1])

\* Variant: a revoked record is deleted instead of flagged.
CommitTokensDeleting(toks, t) ==
    LET kept == [i \in {j \in DOMAIN toks : ~\E o \in t.upd : o.id = j} |-> toks[i]]
    IN IF t.toks = <<>> THEN kept ELSE kept @@ (t.toks[1].id :> t.toks[1])

\* COMMIT on refresh_tokens: the flushed UPDATEs and INSERT become visible together.
CommitTokens(toks, t) ==
    LET updated == [i \in DOMAIN toks |->
                      IF \E o \in t.upd : o.id = i
                      THEN [toks[i] EXCEPT !.revoked = (CHOOSE o \in t.upd : o.id = i).revoked]
                      ELSE toks[i]]
    IN IF t.toks = <<>> THEN updated ELSE updated @@ (t.toks[1].id :> t.toks[1])

CommitUsers(us, t) == IF t.users = <<>> THEN us ELSE us @@ (t.users[1].id :> t.users[1])

\* Variant: closing the session commits the statements already flushed.
CloseTokensCommitting(toks, t) ==
    [i \in DOMAIN toks |->
        IF \E o \in t.upd : o.id = i THEN [toks[i] EXCEPT !.revoked = TRUE] ELSE toks[i]]

\* db.close() in get_db's finally: whatever was not committed is rolled back.
CloseTokens(toks, t) == toks

\* Row lock taken by a flushed UPDATE, held until the transaction ends.
HoldsRowLock(w, id) == pc[w] = "commit" /\ \E o \in tx[w].upd : o.id = id

\* Unique-index entry of an INSERT INTO users that is flushed but not committed.
PendingEmail(w, e) ==
    pc[w] = "commit" /\ tx[w].users # <<>> /\ tx[w].users[1].email = e

\* The store holds at most MaxUsers emails.  Emails that differ by more than case are
\* interchangeable, so the ones stored are the first MaxUsers of a fixed list; the
\* others are only ever presented.  A request that may insert a token starts only
\* while the tokens stored and the tokens pending stay within the bound.
StoredLocals == <<"a", "b">>

UserBudget(e) ==
    \E i \in (1..MaxUsers) \cap DOMAIN StoredLocals : e = <<StoredLocals[i], "@", "x">>

TokenBudget ==
    Cardinality(DOMAIN tokens) + Cardinality({w \in Workers : tx[w].toks # <<>>
                                                              \/ pc[w] = "flush"})
      < MaxTokens

-----------------------------------------------------------------------------
\* Scheduling

\* A response is observed as it leaves: while one is out, nothing else moves.
Quiet == \A v \in Workers : pc[v] # "done"

\* A request is served by the first free worker.
Free(w) == Quiet /\ pc[w] = "idle" /\ \A v \in Workers : v < w => pc[v] # "idle"

\* secrets.token_urlsafe(48): any string.  The strings are interchangeable, so the
\* draws that differ are those equal to a string in use and one draw that is not.
InUse == {r.token : r \in Range(tokens)}

token_urlsafe ==
    {s \in TokenStrings :
        \/ s \in InUse
        \/ \E i \in DOMAIN TokenNames :
              /\ s = TokenNames[i]
              /\ \A j \in 1..(i - 1) : TokenNames[j] \in InUse}

-----------------------------------------------------------------------------
Init ==
    /\ users = <<>>
    /\ tokens = <<>>
    /\ nextUserId = 1
    /\ nextTokenId = 1
    /\ now = 0
    /\ pc = [w \in Workers |-> "idle"]
    /\ op = [w \in Workers |-> ""]
    /\ arg = [w \in Workers |-> ""]
    /\ rt = [w \in Workers |-> NoneToken]
    /\ usr = [w \in Workers |-> NoneUser]
    /\ tx = [w \in Workers |-> NoTx]
    /\ resp = [w \in Workers |-> NoResp]
    /\ cause = [w \in Workers |-> ""]
    /\ rotations = {}
    /\ auth = NoAuth

\* The handler raises or returns: the response goes out and get_db closes the session.
Finish(w, r) ==
    /\ pc' = [pc EXCEPT ![w] = "done"]
    /\ resp' = [resp EXCEPT ![w] = r]
    /\ tx' = [tx EXCEPT ![w] = NoTx]
    /\ tokens' = CloseTokens(tokens, tx[w])
    /\ users' = users

\* POST /api/auth/register, lines 107-116
RegisterLookup(w, email, password) ==
    /\ Free(w)
    /\ LET e == EmailStr(email)
           existing == _get_user_by_email(e)
       IN /\ existing.id = 0 => UserBudget(Lower(e)) /\ TokenBudget
          /\ op' = [op EXCEPT ![w] = "register"]
          /\ arg' = [arg EXCEPT ![w] = ""]
          /\ cause' = [cause EXCEPT ![w] =
                          IF \E u \in Range(users) : Lower(u.email) = Lower(e)
                          THEN "duplicate" ELSE "fresh"]
          /\ IF existing.id # 0
             THEN /\ Finish(w, HTTPException(409, "Email already registered"))
                  /\ UNCHANGED usr
             ELSE /\ usr' = [usr EXCEPT ![w] =
                               [id |-> 0, email |-> Lower(e),
                                password_hash |-> hash_password(password),
                                role |-> "user", is_active |-> TRUE]]
                  /\ tx' = [tx EXCEPT ![w] = [NoTx EXCEPT !.users = <<usr'[w]>>]]
                  /\ pc' = [pc EXCEPT ![w] = "flush"]
                  /\ UNCHANGED <<resp, users, tokens>>
    /\ UNCHANGED <<auth, nextUserId, nextTokenId, now, rt, rotations>>

\* POST /api/auth/register, lines 117-120: db.flush() sends INSERT INTO users, which
\* waits for an uncommitted row with the same email and fails on a committed one.
RegisterFlush(w) ==
    /\ Quiet
    /\ pc[w] = "flush"
    /\ ~\E v \in Workers \ {w} : PendingEmail(v, usr[w].email)
    /\ IF \E u \in Range(users) : u.email = usr[w].email
       THEN /\ Finish(w, ServerError)
            /\ UNCHANGED <<usr, nextUserId>>
       ELSE /\ usr' = [usr EXCEPT ![w].id = nextUserId]
            /\ nextUserId' = nextUserId + 1
            /\ tx' = [tx EXCEPT ![w] =
                         [NoTx EXCEPT !.users = <<usr'[w]>>,
                                      !.toks = <<_issue_refresh_token(usr'[w], now)>>]]
            /\ pc' = [pc EXCEPT ![w] = "commit"]
            /\ UNCHANGED <<resp, users, tokens>>
    /\ UNCHANGED <<auth, nextTokenId, now, op, arg, rt, cause, rotations>>

\* POST /api/auth/login, lines 146-153
LoginLookup(w, email, password) ==
    /\ Free(w)
    /\ LET e == EmailStr(email)
           user == _get_user_by_email(Lower(e))
           ok == UserUsable(user) /\ verify_password(password, user.password_hash)
       IN /\ ok => TokenBudget
          /\ op' = [op EXCEPT ![w] = "login"]
          /\ arg' = [arg EXCEPT ![w] = ""]
          /\ cause' = [cause EXCEPT ![w] =
                          IF user.id = 0 THEN "unknown"
                          ELSE IF ~user.is_active THEN "inactive"
                          ELSE IF ~verify_password(password, user.password_hash)
                               THEN "password" ELSE "valid"]
          /\ IF ~ok
             THEN /\ Finish(w, HTTPException(401, "Invalid credentials"))
                  /\ UNCHANGED usr
             ELSE /\ usr' = [usr EXCEPT ![w] = user]
                  /\ tx' = [tx EXCEPT ![w] =
                               [NoTx EXCEPT !.toks = <<_issue_refresh_token(user, now)>>]]
                  /\ pc' = [pc EXCEPT ![w] = "commit"]
                  /\ UNCHANGED <<resp, users, tokens>>
    /\ UNCHANGED <<auth, nextUserId, nextTokenId, now, rt, rotations>>

\* POST /api/auth/refresh, lines 173-190: the two SELECTs, the checks, and the
\* revocation and the new token left pending in the session.
RefreshRead(w, s) ==
    /\ Free(w)
    /\ LET r == SelectToken(s)
           d == RefreshReject(r, now)
           u == GetUser(r.user_id)
       IN /\ (d = "" /\ UserUsable(u)) => TokenBudget
          /\ op' = [op EXCEPT ![w] = "refresh"]
          /\ arg' = [arg EXCEPT ![w] = s]
          /\ cause' = [cause EXCEPT ![w] =
                          IF d = "" /\ ~UserUsable(u) THEN "user" ELSE RefreshCause(r, now)]
          /\ IF d # ""
             THEN /\ Finish(w, HTTPException(401, d))
                  /\ UNCHANGED <<rt, usr>>
             ELSE IF ~UserUsable(u)
             THEN /\ Finish(w, HTTPException(401, "User not found or inactive"))
                  /\ rt' = [rt EXCEPT ![w] = r]
                  /\ UNCHANGED usr
             ELSE /\ rt' = [rt EXCEPT ![w] = r]
                  /\ usr' = [usr EXCEPT ![w] = u]
                  /\ tx' = [tx EXCEPT ![w] =
                               [NoTx EXCEPT !.upd = {_revoke_refresh_token(r)},
                                            !.toks = <<_issue_refresh_token(u, now)>>]]
                  /\ pc' = [pc EXCEPT ![w] = "upd"]
                  /\ UNCHANGED <<resp, users, tokens>>
    /\ UNCHANGED <<auth, nextUserId, nextTokenId, now, rotations>>

\* POST /api/auth/logout, lines 209-212 (and 215 when there is nothing to revoke)
LogoutRead(w, s) ==
    /\ Free(w)
    /\ LET r == SelectToken(s)
       IN /\ op' = [op EXCEPT ![w] = "logout"]
          /\ arg' = [arg EXCEPT ![w] = s]
          /\ cause' = [cause EXCEPT ![w] = RefreshCause(r, now)]
          /\ rt' = [rt EXCEPT ![w] = r]
          /\ IF LogoutRevokes(r)
             THEN /\ tx' = [tx EXCEPT ![w] = [NoTx EXCEPT !.upd = {_revoke_refresh_token(r)}]]
                  /\ pc' = [pc EXCEPT ![w] = "upd"]
                  /\ UNCHANGED <<resp, users, tokens>>
             ELSE Finish(w, LogoutResponse(r))
    /\ UNCHANGED <<auth, nextUserId, nextTokenId, now, usr, rotations>>

\* db.commit(), first statement of the flush: UPDATE refresh_tokens SET revoked = true
\* WHERE id = :id.  It waits while another transaction holds the row's lock.
FlushUpdate(w) ==
    /\ Quiet
    /\ pc[w] = "upd"
    /\ \A o \in tx[w].upd : ~\E v \in Workers \ {w} : HoldsRowLock(v, o.id)
    /\ pc' = [pc EXCEPT ![w] = "commit"]
    /\ UNCHANGED <<auth, users, tokens, nextUserId, nextTokenId, now, op, arg, rt, usr, tx,
                   resp, cause, rotations>>

\* The pending writes with the new token, if there is one, given its string and id.
Flushed(t, s, id) ==
    IF t.toks = <<>> THEN t
    ELSE [t EXCEPT !.toks = <<[t.toks[1] EXCEPT !.id = id, !.token = s]>>]

\* Variant: the index on refresh_tokens.token is not unique.
TokenTakenNever(toks, s) == FALSE

\* The unique index on refresh_tokens.token refuses a string that is stored.
TokenTaken(toks, s) == \E r \in Range(toks) : r.token = s

\* db.commit(), the rest: INSERT INTO refresh_tokens (when a token was issued), which
\* the unique index on token fails for a stored string; COMMIT; the return statement.
\* commit() expired the session's objects, so user.role, user.email and rt.token are
\* loaded again from the store.
Commit(w, s) ==
    /\ Quiet
    /\ pc[w] = "commit"
    /\ IF tx[w].toks # <<>> /\ TokenTaken(tokens, s)
       THEN /\ Finish(w, ServerError)
            /\ UNCHANGED <<nextTokenId, rotations>>
       ELSE LET t == Flushed(tx[w], s, nextTokenId)
            IN /\ tokens' = CommitTokens(tokens, t)
               /\ users' = CommitUsers(users, t)
               /\ nextTokenId' = IF t.toks = <<>> THEN nextTokenId ELSE nextTokenId + 1
               /\ rotations' = IF op[w] = "refresh"
                               THEN rotations \cup {[old |-> arg[w], new |-> s]}
                               ELSE rotations
               /\ pc' = [pc EXCEPT ![w] = "done"]
               /\ tx' = [tx EXCEPT ![w] = NoTx]
               /\ resp' = [resp EXCEPT ![w] =
                             IF op[w] = "logout"
                             THEN LogoutResponse(rt[w])
                             ELSE _token_response(IF op[w] = "register" THEN 201 ELSE 200,
                                                  users'[usr[w].id],
                                                  tokens'[t.toks[1].id].token, now)]
    /\ UNCHANGED <<auth, nextUserId, now, op, arg, rt, usr, cause>>

\* The worker is free for the next request.
Return(w) ==
    /\ pc[w] = "done"
    /\ pc' = [pc EXCEPT ![w] = "idle"]
    /\ op' = [op EXCEPT ![w] = ""]
    /\ arg' = [arg EXCEPT ![w] = ""]
    /\ rt' = [rt EXCEPT ![w] = NoneToken]
    /\ usr' = [usr EXCEPT ![w] = NoneUser]
    /\ resp' = [resp EXCEPT ![w] = NoResp]
    /\ cause' = [cause EXCEPT ![w] = ""]
    /\ auth' = NoAuth
    /\ UNCHANGED <<users, tokens, nextUserId, nextTokenId, now, tx, rotations>>

\* Time passes.
Tick ==
    /\ Quiet
    /\ now < MaxTime
    /\ now' = now + 1
    /\ UNCHANGED <<auth, users, tokens, nextUserId, nextTokenId, pc, op, arg, rt, usr, tx,
                   resp, cause, rotations>>

\* users.is_active is a plain column: flows outside the auth routes set it.
SetActive(id, b) ==
    /\ Quiet
    /\ id \in DOMAIN users
    /\ users[id].is_active # b
    /\ users' = [users EXCEPT ![id].is_active = b]
    /\ UNCHANGED <<auth, tokens, nextUserId, nextTokenId, now, pc, op, arg, rt, usr, tx,
                   resp, cause, rotations>>

\* users.role is a plain column: flows outside the auth routes set it.
SetRole(id, r) ==
    /\ Quiet
    /\ id \in DOMAIN users
    /\ users[id].role # r
    /\ users' = [users EXCEPT ![id].role = r]
    /\ UNCHANGED <<auth, tokens, nextUserId, nextTokenId, now, pc, op, arg, rt, usr, tx,
                   resp, cause, rotations>>

\* The Authorization headers presented: none; the tokens create_access_token has or
\* could have issued up to now; and such a token with one thing wrong: the key, the
\* typ claim, the sub claim.
Issued ==
    {create_access_token(str(id), r, t) : id \in DOMAIN users, r \in Roles, t \in 0..now}

Latest == {c \in Issued : c.iat = now /\ c.role = "user"}

Bearers ==
    {NoCredentials}
      \cup {jwt_encode(c, jwt_secret) : c \in Issued}
      \cup {jwt_encode(c, k) : c \in Latest, k \in Keys}
      \cup {jwt_encode([c EXCEPT !.typ = y], jwt_secret) : c \in Latest, y \in {"", "refresh"}}
      \cup {jwt_encode([c EXCEPT !.sub = x], jwt_secret) :
                c \in Latest, x \in {<<>>, <<"x">>, str(nextUserId)}}

\* A dependency reads the committed users and writes nothing, so what it answers
\* depends on the store and the clock alone: it is taken while no other request is
\* in flight.
AllIdle == \A v \in Workers : pc[v] = "idle"

\* A request to a route that depends on get_current_user, lines 40-66.
GetCurrentUser(w) ==
    /\ Free(w)
    /\ AllIdle
    /\ \E credentials \in Bearers :
          /\ auth' = [bearer |-> credentials, allowed |-> {}]
          /\ Finish(w, get_current_user(credentials, now))
    /\ op' = [op EXCEPT ![w] = "get_current_user"]
    /\ UNCHANGED <<nextUserId, nextTokenId, now, arg, rt, usr, cause, rotations>>

\* A request to a route that depends on require_roles(*allowed_roles), lines 86-91.
RequireRoles(w, allowed_roles) ==
    /\ Free(w)
    /\ AllIdle
    /\ \E credentials \in Bearers :
          /\ auth' = [bearer |-> credentials, allowed |-> allowed_roles]
          /\ Finish(w, require_roles(allowed_roles, credentials, now))
    /\ op' = [op EXCEPT ![w] = "require_roles"]
    /\ UNCHANGED <<nextUserId, nextTokenId, now, arg, rt, usr, cause, rotations>>

Next ==
    \/ \E w \in Workers, e \in Emails, p \in Passwords : RegisterLookup(w, e, p)
    \/ \E w \in Workers : RegisterFlush(w)
    \/ \E w \in Workers, e \in Emails, p \in Passwords : LoginLookup(w, e, p)
    \/ \E w \in Workers, s \in TokenStrings : RefreshRead(w, s)
    \/ \E w \in Workers, s \in TokenStrings : LogoutRead(w, s)
    \/ \E w \in Workers : FlushUpdate(w)
    \/ \E w \in Workers, s \in token_urlsafe : Commit(w, s)
    \/ \E w \in Workers : Return(w)
    \/ Tick
    \/ \E id \in DOMAIN users, b \in BOOLEAN : SetActive(id, b)
    \/ \E id \in DOMAIN users, r \in Roles : SetRole(id, r)
    \/ \E w \in Workers : GetCurrentUser(w)
    \/ \E w \in Workers, a \in SUBSET Roles : RequireRoles(w, a)

Spec == Init /\ [][Next]_vars

-----------------------------------------------------------------------------
\* Properties

\* The tokens that a successful refresh has rotated.
Rotated == {r.old : r \in rotations}

\* A row that /refresh would turn down at time t.
Invalid(r, t) == r.revoked \/ r.expires_at <= t

\* The step is one of worker w's request on operation o.
StepOf(w, o) == pc'[w] # pc[w] /\ (op[w] = o \/ (pc[w] = "idle" /\ op'[w] = o))

\* The step is worker w starting a request on operation o with the token string s.
Starts(w, o, s) == pc[w] = "idle" /\ pc'[w] # "idle" /\ op'[w] = o /\ arg'[w] = s

StoreUnchanged == users' = users /\ tokens' = tokens

\* C1: of the /refresh requests that present one token, concurrent or not, one succeeds
\* and the others get 401, so the token is rotated once and has one replacement.
C1_OneRefreshSucceeds ==
    \A s \in TokenStrings : Cardinality({r \in rotations : r.old = s}) <= 1

\* C2: once a /refresh with a token has succeeded, every /refresh that presents that
\* token afterwards is answered 401 and leaves the store as it was.
C2_RotatedTokenRejected ==
    [][\A w \in Workers, s \in Rotated :
          Starts(w, "refresh", s) =>
              /\ pc'[w] = "done"
              /\ resp'[w].status = 401
              /\ StoreUnchanged]_vars

C2_Witness ==
    \E w \in Workers :
        /\ pc[w] = "done" /\ op[w] = "refresh" /\ arg[w] \in Rotated
        /\ cause[w] = "revoked" /\ resp[w].status = 401

\* C3: a /refresh changes the committed store in one step: a step of a /refresh that
\* changes a stored token also adds one, so the revocation is never visible without
\* the replacement; and in every committed state each rotation's replacement is
\* stored and its presented token is revoked, so the two are never valid together.
C3_RotationAtomic ==
    [][/\ \A w \in Workers :
             StepOf(w, "refresh") =>
                 ((\E i \in DOMAIN tokens : tokens'[i] # tokens[i])
                     => DOMAIN tokens' # DOMAIN tokens)
       /\ \A r \in rotations' :
             /\ TokenRow(tokens', r.old).id # 0
             /\ TokenRow(tokens', r.old).revoked
             /\ TokenRow(tokens', r.new).id # 0]_vars

C3_Witness ==
    \E r \in rotations : TokenRow(tokens, r.new).id # 0 /\ ~TokenRow(tokens, r.new).revoked

\* C4: no step takes a stored token from revoked to not revoked or from invalid
\* (revoked or expired) to valid, and a /refresh that reads an invalid token is
\* answered 401 and leaves the store as it was.
C4_InvalidIsPermanent ==
    [][/\ \A i \in DOMAIN tokens :
             /\ i \in DOMAIN tokens'
             /\ tokens[i].revoked => tokens'[i].revoked
             /\ Invalid(tokens[i], now) => Invalid(tokens'[i], now')
       /\ \A w \in Workers, s \in TokenStrings :
             (Starts(w, "refresh", s) /\ TokenRow(tokens, s).id # 0
                 /\ Invalid(TokenRow(tokens, s), now)) =>
                 /\ pc'[w] = "done"
                 /\ resp'[w].status = 401
                 /\ StoreUnchanged]_vars

C4_Witness ==
    \E w \in Workers :
        /\ pc[w] = "done" /\ op[w] = "refresh" /\ cause[w] = "expired"
        /\ ~TokenRow(tokens, arg[w]).revoked
        /\ resp[w].status = 401

\* C5: the step in which a /refresh succeeds sets revoked on the presented token and
\* on no other, adds one token with the presented token's user_id, returns that
\* token's string as refresh_token, and changes nothing else in the store.
C5_RefreshEffect ==
    [][\A w \in Workers :
          (StepOf(w, "refresh") /\ pc'[w] = "done" /\ resp'[w].status = 200) =>
              LET old == TokenRow(tokens, arg[w])
              IN /\ users' = users
                 /\ old.id # 0
                 /\ tokens'[old.id] = [old EXCEPT !.revoked = TRUE]
                 /\ \A i \in DOMAIN tokens \ {old.id} : tokens'[i] = tokens[i]
                 /\ \E n \in DOMAIN tokens' \ DOMAIN tokens :
                       /\ DOMAIN tokens' = DOMAIN tokens \cup {n}
                       /\ tokens'[n].user_id = old.user_id
                       /\ ~tokens'[n].revoked
                       /\ tokens'[n].token = resp'[w].refresh_token]_vars

C5_Witness ==
    \E w \in Workers :
        /\ pc[w] = "done" /\ op[w] = "refresh" /\ resp[w].status = 200
        /\ rt[w].id # 0 /\ ~rt[w].revoked
        /\ Cardinality(DOMAIN tokens) = MaxTokens

\* C6: a /refresh that fails changes nothing in the store: the only step of a
\* /refresh that changes users or tokens is the one that returns 200.
C6_FailedRefreshChangesNothing ==
    [][\A w \in Workers :
          (StepOf(w, "refresh") /\ ~(pc'[w] = "done" /\ resp'[w].status = 200)) =>
              StoreUnchanged]_vars

C6_Witness ==
    \E w \in Workers :
        /\ pc[w] = "done" /\ op[w] = "refresh" /\ cause[w] = "user"
        /\ resp[w] = HTTPException(401, "User not found or inactive")

\* C7: /refresh answers a token that is unknown, one that is revoked and one that is
\* expired with the same response as it gives for an unknown token.
C7_GenericRefreshFailure ==
    \A w \in Workers :
        (pc[w] = "done" /\ op[w] = "refresh"
            /\ cause[w] \in {"notfound", "revoked", "expired"}) =>
            resp[w] = HTTPException(401, RefreshReject(NoneToken, now))

\* C8: /register with an email that equals a stored email up to case is answered 409
\* and creates no user and no token.
C8_DuplicateEmailConflict ==
    \A w \in Workers :
        (pc[w] = "done" /\ op[w] = "register" /\ cause[w] = "duplicate") =>
            resp[w].status = 409

\* C9: /logout is idempotent: when it returns 200 the presented token is absent or
\* revoked, which /refresh turns down, and a /logout that finds the token in that
\* state is answered 200 as well and leaves the store as it was.
C9_LogoutIdempotent ==
    [][\A w \in Workers :
          /\ (StepOf(w, "logout") /\ pc'[w] = "done") =>
                LET r == TokenRow(tokens', arg'[w])
                IN /\ resp'[w] = HTTPException(200, "Logged out")
                   /\ r.id = 0 \/ r.revoked
                   /\ RefreshReject(r, now') # ""
          /\ \A s \in TokenStrings :
                (Starts(w, "logout", s)
                    /\ (TokenRow(tokens, s).id = 0 \/ TokenRow(tokens, s).revoked)) =>
                    /\ pc'[w] = "done"
                    /\ resp'[w] = HTTPException(200, "Logged out")
                    /\ StoreUnchanged]_vars

C9_Witness ==
    \E w \in Workers :
        /\ pc[w] = "done" /\ op[w] = "logout" /\ cause[w] = "revoked"
        /\ arg[w] \notin Rotated
        /\ resp[w].status = 200

\* C10: /logout is always answered 200 "Logged out", whatever token string it is
\* given; for a string that is not stored or a token already revoked it changes
\* nothing in the store.
C10_LogoutAlwaysOk ==
    [][\A w \in Workers :
          /\ pc'[w] = "done" /\ op'[w] = "logout" =>
                resp'[w].status = 200 /\ resp'[w].detail = "Logged out"
          /\ StepOf(w, "logout") /\ cause'[w] \in {"notfound", "revoked"} =>
                StoreUnchanged]_vars

C10_Witness ==
    \E w \in Workers :
        /\ pc[w] = "done" /\ op[w] = "logout" /\ cause[w] = "notfound"
        /\ tokens # <<>>
        /\ resp[w].status = 200

\* C11: /login answers an unknown email, an inactive user and a wrong password with
\* the same 401 "Invalid credentials" in the step that looks the user up, leaving the
\* store as it was; it returns a token pair only when the user exists, is active and
\* the password verifies.
C11_GenericLoginFailure ==
    [][\A w \in Workers :
          (StepOf(w, "login") /\ pc'[w] = "done") =>
              /\ cause'[w] \in {"unknown", "inactive", "password"} =>
                    /\ pc[w] = "idle"
                    /\ resp'[w] = HTTPException(401, "Invalid credentials")
                    /\ StoreUnchanged
              /\ resp'[w].status = 200 =>
                    /\ cause'[w] = "valid"
                    /\ resp'[w].refresh_token \in {r.token : r \in Range(tokens')}]_vars

C11_Witness ==
    \E w \in Workers :
        /\ pc[w] = "done" /\ op[w] = "login" /\ cause[w] = "inactive"
        /\ \E u \in Range(users) : ~u.is_active
        /\ resp[w] = HTTPException(401, "Invalid credentials")

\* C12: a /refresh passes validation exactly when a record with the presented string
\* is stored, is not revoked, has expires_at > now, and its user is active; otherwise
\* it is answered 401 at once.  A token presented at now = expires_at is turned down.
\* Only a /refresh that passed validation returns 200.
C12_AcceptedIffValid ==
    [][\A w \in Workers :
          /\ \A s \in TokenStrings :
                Starts(w, "refresh", s) =>
                    LET r == TokenRow(tokens, s)
                        valid == /\ r.id # 0
                                 /\ ~r.revoked
                                 /\ r.expires_at > now
                                 /\ r.user_id \in DOMAIN users
                                 /\ users[r.user_id].is_active
                    IN /\ valid <=> pc'[w] = "upd"
                       /\ ~valid <=> (pc'[w] = "done" /\ resp'[w].status = 401)
          /\ (StepOf(w, "refresh") /\ pc'[w] = "done" /\ resp'[w].status = 200) =>
                pc[w] = "commit"]_vars

C12_Witness ==
    \E w \in Workers :
        /\ pc[w] = "done" /\ op[w] = "refresh"
        /\ TokenRow(tokens, arg[w]).id # 0
        /\ ~TokenRow(tokens, arg[w]).revoked
        /\ TokenRow(tokens, arg[w]).expires_at = now
        /\ resp[w] = HTTPException(401, "Refresh token expired")

AllClaims ==
    [sub : {<<>>, <<"x">>} \cup Numeric, typ : {"", "access", "refresh"}, role : Roles,
     iat : {0}, exp : 0..(MaxTime + AccessTTL)]

Credentials == {NoCredentials} \cup {jwt_encode(c, k) : c \in AllClaims, k \in Keys}

\* C14: get_current_user returns a user only for a token signed with the server's key,
\* not expired, with typ "access" and a sub that is the id of a stored active user, and
\* then returns that user; for every other header (none, another key, expired, wrong
\* or missing typ, missing or non-numeric sub, unknown or inactive user) it answers 401.
C14_CurrentUserOnlyIfValid ==
    /\ \A c \in Credentials :
          LET r == get_current_user(c, now)
              good == /\ c.key = jwt_secret
                      /\ c.claims.exp > now
                      /\ c.claims.typ = "access"
                      /\ c.claims.sub \in Numeric
                      /\ int(c.claims.sub) \in DOMAIN users
                      /\ users[int(c.claims.sub)].is_active
          IN /\ good => r = Resolved(users[int(c.claims.sub)])
             /\ ~good => r.status = 401 /\ r.user = NoPublic
    /\ \A w \in Workers :
          (pc[w] = "done" /\ op[w] = "get_current_user") =>
              /\ resp[w] = get_current_user(auth.bearer, now)
              /\ resp[w].status \in {200, 401}

C14_Witness ==
    \E w \in Workers :
        /\ pc[w] = "done" /\ op[w] = "get_current_user"
        /\ auth.bearer.key = jwt_secret
        /\ auth.bearer.claims.exp > now
        /\ auth.bearer.claims.typ = "access"
        /\ \E id \in DOMAIN users : auth.bearer.claims.sub = str(id) /\ ~users[id].is_active
        /\ resp[w] = _unauthorized("User not found or inactive")

\* C15: an access token issued at t has exp = t + AccessTTL; at every time from exp on,
\* decoding it fails and get_current_user answers 401 "Invalid or expired token" though
\* the signature is right, and before exp decoding succeeds; the tokens the routes
\* return are issued at the time of the response.
C15_AccessTokenExpires ==
    /\ \A c \in Issued :
          LET token == jwt_encode(c, jwt_secret)
          IN /\ c.exp = c.iat + AccessTTL
             /\ \A u \in now..(MaxTime + AccessTTL) :
                   /\ u >= c.iat + AccessTTL =>
                         /\ ~decode_token(token, u).ok
                         /\ get_current_user(token, u) = _unauthorized("Invalid or expired token")
                   /\ u < c.iat + AccessTTL => decode_token(token, u).ok
    /\ \A w \in Workers :
          /\ (pc[w] = "done" /\ resp[w].status \in {200, 201}
                /\ op[w] \in {"register", "login", "refresh"}) =>
                /\ resp[w].access_token.iat = now
                /\ resp[w].access_token.exp = now + AccessTTL
          /\ (pc[w] = "done" /\ op[w] \in {"get_current_user", "require_roles"}
                /\ auth.bearer # NoCredentials /\ auth.bearer.claims.exp <= now) =>
                resp[w] = _unauthorized("Invalid or expired token")

C15_Witness ==
    \E w \in Workers :
        /\ pc[w] = "done" /\ op[w] = "get_current_user"
        /\ auth.bearer.key = jwt_secret
        /\ auth.bearer.claims \in Issued
        /\ auth.bearer.claims.exp = now
        /\ UserUsable(GetUser(int(auth.bearer.claims.sub)))
        /\ resp[w] = _unauthorized("Invalid or expired token")

\* C16: for a non-empty set of allowed roles, the dependency built by require_roles
\* answers what get_current_user answers when that is 401, 403 "Not enough permissions"
\* when the user resolved has a stored role outside the set, and returns the user when
\* the stored role is in the set; the role claim of the token plays no part.
C16_RoleGuard ==
    /\ \A c \in Bearers, a \in (SUBSET Roles) \ {{}} :
          LET g == get_current_user(c, now)
              r == require_roles(a, c, now)
          IN /\ g.status = 401 => r = g
             /\ g.status = 200 =>
                   /\ users[g.user.id].role \in a => r = Resolved(users[g.user.id])
                   /\ users[g.user.id].role \notin a => r = HTTPException(403, "Not enough permissions")
    /\ \A w \in Workers :
          (pc[w] = "done" /\ op[w] = "require_roles") =>
              /\ resp[w] = require_roles(auth.allowed, auth.bearer, now)
              /\ resp[w].status \in {200, 401, 403}
              /\ resp[w].status = 403 => get_current_user(auth.bearer, now).status = 200

C16_Witness ==
    \E w \in Workers :
        /\ pc[w] = "done" /\ op[w] = "require_roles"
        /\ auth.allowed # {}
        /\ auth.bearer.claims.role \in auth.allowed
        /\ resp[w].status = 403

\* C17: of two concurrent /register requests with the same email one creates the user
\* and the other is answered 409: a /register whose lookup found no such email, and
\* that ends without creating the user while the email is stored, ends with 409.
C17_ConcurrentRegisterConflict ==
    \A w \in Workers :
        (/\ pc[w] = "done" /\ op[w] = "register" /\ cause[w] = "fresh"
         /\ resp[w].status # 201
         /\ \E u \in Range(users) : u.email = usr[w].email) =>
            resp[w].status = 409

\* C18: /refresh looks the user up when it runs: presented with a valid token of a
\* user who is not active any more it answers 401 and changes nothing, and the access
\* token it returns carries the user's id and the role stored when it returns, not
\* the role of the time the presented token was issued.
C18_RefreshReadsUserAgain ==
    [][\A w \in Workers :
          /\ \A s \in TokenStrings :
                LET r == TokenRow(tokens, s)
                IN (/\ Starts(w, "refresh", s)
                    /\ r.id # 0 /\ ~r.revoked /\ r.expires_at > now
                    /\ ~users[r.user_id].is_active) =>
                       /\ pc'[w] = "done"
                       /\ resp'[w] = HTTPException(401, "User not found or inactive")
                       /\ StoreUnchanged
          /\ (StepOf(w, "refresh") /\ pc'[w] = "done" /\ resp'[w].status = 200) =>
                LET id == TokenRow(tokens, arg[w]).user_id
                IN /\ resp'[w].access_token.sub = str(id)
                   /\ resp'[w].access_token.role = users'[id].role
                   /\ resp'[w].user = _to_user_public(users'[id])]_vars

C18_Witness ==
    \E w \in Workers :
        /\ pc[w] = "done" /\ op[w] = "refresh" /\ resp[w].status = 200
        /\ Cardinality(DOMAIN tokens) = 2
        /\ Cardinality(rotations) = 1
        /\ resp[w].access_token.role = "admin"

\* C19: in every state no two stored refresh tokens have the same string and no two
\* stored users the same email; a request whose generated string is already stored
\* ends in an error and adds no record.
C19_UniqueTokensAndEmails ==
    /\ \A i, j \in DOMAIN tokens : tokens[i].token = tokens[j].token => i = j
    /\ \A i, j \in DOMAIN users : users[i].email = users[j].email => i = j
    /\ \A i \in DOMAIN users : users[i].email = Lower(users[i].email)

C19_Witness ==
    \E w \in Workers :
        /\ pc[w] = "done" /\ op[w] = "login" /\ cause[w] = "valid"
        /\ resp[w] = ServerError
        /\ Cardinality(DOMAIN tokens) = 1

\* C20: the token a request builds has revoked = false and expires_at = the time it is
\* built + RefreshTTL; a register, login or refresh that succeeds adds exactly that one
\* record, and no other step adds a record.
C20_IssuedTokenFields ==
    [][/\ \A w \in Workers :
             /\ (tx[w].toks = <<>> /\ tx'[w].toks # <<>>) =>
                   /\ Len(tx'[w].toks) = 1
                   /\ ~tx'[w].toks[1].revoked
                   /\ tx'[w].toks[1].expires_at = now + RefreshTTL
                   /\ tx'[w].toks[1].user_id = usr'[w].id
             /\ (/\ pc[w] # "done" /\ pc'[w] = "done"
                 /\ op'[w] \in {"register", "login", "refresh"}
                 /\ resp'[w].status \in {200, 201}) =>
                   \E n \in DOMAIN tokens' \ DOMAIN tokens :
                       /\ DOMAIN tokens' = DOMAIN tokens \cup {n}
                       /\ ~tokens'[n].revoked
                       /\ tokens'[n].expires_at = tx[w].toks[1].expires_at
                       /\ tokens'[n].user_id = tx[w].toks[1].user_id
                       /\ tokens'[n].token = resp'[w].refresh_token
       /\ DOMAIN tokens' # DOMAIN tokens =>
             \E w \in Workers :
                 /\ pc[w] = "commit" /\ pc'[w] = "done"
                 /\ op[w] \in {"register", "login", "refresh"}
                 /\ resp'[w].status \in {200, 201}
       /\ \A i \in DOMAIN tokens' : tokens'[i].expires_at \in RefreshTTL..(now' + RefreshTTL)]_vars

C20_Witness ==
    \E w \in Workers :
        /\ pc[w] = "done" /\ op[w] = "login" /\ resp[w].status = 200
        /\ ~TokenRow(tokens, resp[w].refresh_token).revoked
        /\ TokenRow(tokens, resp[w].refresh_token).expires_at = now + RefreshTTL
        /\ Cardinality(DOMAIN tokens) >= 2

\* C21: a /register that succeeds commits its user and its first refresh token in one
\* step: a step that adds a user is the commit of a /register answered 201, adds that
\* one user, with the lower-cased email, role "user" and is_active true, and adds the
\* token returned, which is that user's; so every stored user has a stored token.
C21_RegisterCommitsTogether ==
    [][/\ DOMAIN users' # DOMAIN users =>
             \E w \in Workers :
                 /\ pc[w] = "commit" /\ pc'[w] = "done" /\ op[w] = "register"
                 /\ resp'[w].status = 201
                 /\ \E id \in DOMAIN users' \ DOMAIN users :
                       /\ DOMAIN users' = DOMAIN users \cup {id}
                       /\ users'[id].email = usr[w].email
                       /\ users'[id].email = Lower(users'[id].email)
                       /\ users'[id].password_hash = usr[w].password_hash
                       /\ users'[id].role = "user"
                       /\ users'[id].is_active
                       /\ \E n \in DOMAIN tokens' \ DOMAIN tokens :
                             /\ DOMAIN tokens' = DOMAIN tokens \cup {n}
                             /\ tokens'[n].user_id = id
                             /\ ~tokens'[n].revoked
                             /\ tokens'[n].token = resp'[w].refresh_token
       /\ \A w \in Workers :
             (StepOf(w, "register") /\ pc'[w] = "done" /\ resp'[w].status = 201) =>
                 DOMAIN users' # DOMAIN users
       /\ \A id \in DOMAIN users' : \E n \in DOMAIN tokens' : tokens'[n].user_id = id]_vars

C21_Witness ==
    \E w \in Workers :
        /\ pc[w] = "done" /\ op[w] = "register" /\ resp[w].status = 201
        /\ usr[w].id \in DOMAIN users
        /\ users[usr[w].id].role = "user" /\ users[usr[w].id].is_active
        /\ TokenRow(tokens, resp[w].refresh_token).user_id = usr[w].id

\* C22: no step of register, login, refresh or logout (nor any other step) deletes a
\* refresh-token record or changes its id, token string, user_id or expires_at: the
\* set of records only grows, and the only field that changes after creation is
\* revoked, from false to true.
C22_TokensOnlyGrow ==
    [][\A i \in DOMAIN tokens :
          /\ i \in DOMAIN tokens'
          /\ tokens'[i].id = tokens[i].id
          /\ tokens'[i].token = tokens[i].token
          /\ tokens'[i].user_id = tokens[i].user_id
          /\ tokens'[i].expires_at = tokens[i].expires_at
          /\ tokens[i].revoked => tokens'[i].revoked
          /\ tokens'[i] # tokens[i] => ~tokens[i].revoked /\ tokens'[i].revoked]_vars

C22_Witness ==
    \E w \in Workers :
        /\ pc[w] = "done" /\ op[w] \in {"refresh", "logout"} /\ resp[w].status = 200
        /\ Cardinality(DOMAIN tokens) >= 2
        /\ \E i \in DOMAIN tokens :
              /\ tokens[i].token = arg[w] /\ tokens[i].revoked
              /\ tokens[i].expires_at > now

\* C23: login revokes nothing: the step in which a /login succeeds adds one token of
\* the user and leaves every stored token as it was, and no other step of a /login
\* changes the store; a /logout or /refresh changes no stored token other than the one
\* presented, so the user's other refresh tokens stay valid.
C23_LoginRevokesNothing ==
    [][\A w \in Workers :
          /\ (StepOf(w, "login") /\ pc'[w] = "done" /\ resp'[w].status = 200) =>
                 /\ users' = users
                 /\ \A i \in DOMAIN tokens : tokens'[i] = tokens[i]
                 /\ \E n \in DOMAIN tokens' \ DOMAIN tokens :
                       /\ DOMAIN tokens' = DOMAIN tokens \cup {n}
                       /\ tokens'[n].user_id = usr[w].id
                       /\ ~tokens'[n].revoked
                       /\ tokens'[n].token = resp'[w].refresh_token
          /\ (StepOf(w, "login") /\ ~(pc'[w] = "done" /\ resp'[w].status = 200)) =>
                 StoreUnchanged
          /\ (StepOf(w, "logout") \/ StepOf(w, "refresh")) =>
                 \A i \in DOMAIN tokens :
                     tokens[i].token # arg'[w] => tokens'[i] = tokens[i]]_vars

\* A logout has revoked one of two tokens of a user and the other is still valid.
C23_Witness ==
    \E w \in Workers :
        /\ pc[w] = "done" /\ op[w] = "logout" /\ cause[w] = "valid"
        /\ \E i, j \in DOMAIN tokens :
              /\ tokens[i].token = arg[w] /\ tokens[i].revoked
              /\ tokens[j].user_id = tokens[i].user_id
              /\ RefreshReject(tokens[j], now) = ""
              /\ UserUsable(GetUser(tokens[j].user_id))

\* C24: revoking a refresh token does not affect access tokens: what get_current_user
\* answers to an issued access token is the same after a step of /logout or /refresh
\* as before it, and an issued access token that has not reached its exp and whose
\* user exists and is active is accepted whatever the state of the refresh tokens.
C24_AccessTokenSurvivesRevocation ==
    [][/\ \A w \in Workers :
             (StepOf(w, "logout") \/ StepOf(w, "refresh")) =>
                 \A c \in Issued :
                     get_current_user(jwt_encode(c, jwt_secret), now)'
                         = get_current_user(jwt_encode(c, jwt_secret), now)
       /\ \A c \in Issued :
             (c.exp > now /\ UserUsable(GetUser(int(c.sub)))) =>
                 get_current_user(jwt_encode(c, jwt_secret), now)
                     = Resolved(GetUser(int(c.sub)))]_vars

\* An issued access token is accepted while every refresh token of its user is revoked.
C24_Witness ==
    \E w \in Workers :
        /\ pc[w] = "done" /\ op[w] = "get_current_user" /\ resp[w].status = 200
        /\ auth.bearer # NoCredentials
        /\ auth.bearer.key = jwt_secret /\ auth.bearer.claims \in Issued
        /\ \E id \in DOMAIN users :
              /\ auth.bearer.claims.sub = str(id)
              /\ \E i \in DOMAIN tokens : tokens[i].user_id = id
              /\ \A i \in DOMAIN tokens : tokens[i].user_id = id => tokens[i].revoked

\* C25: a /refresh refused only because the token's user is not active does not
\* consume the token: it answers 401 and leaves the presented record as it was,
\* unrevoked; setting is_active changes no token; and a /refresh presenting a stored,
\* unrevoked, unexpired token of an active user is not refused, so the same token is
\* taken once the user is active again before the token expires.
C25_InactiveRefusalKeepsToken ==
    [][/\ \A w \in Workers : \A s \in TokenStrings :
             LET r == TokenRow(tokens, s)
                 valid == r.id # 0 /\ ~r.revoked /\ r.expires_at > now
             IN /\ (Starts(w, "refresh", s) /\ valid /\ ~users[r.user_id].is_active) =>
                       /\ pc'[w] = "done"
                       /\ resp'[w] = HTTPException(401, "User not found or inactive")
                       /\ tokens' = tokens
                       /\ TokenRow(tokens', s) = r
                       /\ ~TokenRow(tokens', s).revoked
                /\ (Starts(w, "refresh", s) /\ valid /\ users[r.user_id].is_active) =>
                       /\ pc'[w] = "upd"
                       /\ rt'[w] = r
                       /\ tx'[w].upd = {[r EXCEPT !.revoked = TRUE]}
       /\ (\E id \in DOMAIN users : users'[id].is_active # users[id].is_active) =>
              tokens' = tokens]_vars

\* A /refresh has been refused for its inactive user and the token it presented is
\* stored unrevoked and unexpired.
C25_Witness ==
    \E w \in Workers :
        /\ pc[w] = "done" /\ op[w] = "refresh"
        /\ resp[w] = HTTPException(401, "User not found or inactive")
        /\ rt[w].id \in DOMAIN tokens
        /\ tokens[rt[w].id].token = arg[w]
        /\ ~tokens[rt[w].id].revoked
        /\ tokens[rt[w].id].expires_at > now
        /\ ~users[rt[w].user_id].is_active

====
